---- MODULE Spec2Model ----
(***************************************************************************)
(* Model of the movie-context-provider backend: the watchlist / watched    *)
(* tools (backend/src/tools/watched.ts, backend/src/db/utilities.ts), the  *)
(* batch tool, the preference tools (tools/preferences.ts), the Redis      *)
(* cache client (cache/redis.ts) and the transaction helper                *)
(* (db/client.ts).                                                         *)
(*                                                                         *)
(* Tables are sets of rows.  A tool call is one action in the sequential   *)
(* specifications; the concurrent specification of the preference tools    *)
(* splits a call at its awaits.                                            *)
(***************************************************************************)
EXTENDS Integers, Sequences, FiniteSets, TLC

VARIABLES
    movies,     \* movies table: rows [id, tmdb_id]
    watchlist,  \* watchlist table: rows [user, movie, notes, added_at]; movie is
                \* the tmdb_id of the movies row that movie_id names
    watched,    \* watched table: rows [user, movie, rating, notes]; movie as in
                \* watchlist
    prefs,      \* preferences table: rows [user, key, value]
    cache,      \* Redis: key user:<u>:preferences -> <<>> (absent) or <<response>>
    now,        \* the store's clock, NOW()
    result,     \* the response of the last completed tool call
    pc,         \* concurrent specification: where each request is
    loc         \* concurrent specification: the locals of each request

vars == <<movies, watchlist, watched, prefs, cache, now, result, pc, loc>>

watchVars == <<movies, watchlist, watched>>
prefVars == <<prefs, cache>>
procVars == <<pc, loc>>

-----------------------------------------------------------------------------
(* Bounds of the model *)

\* the clock stops advancing at MaxClock
MaxClock == 1

\* the longest batch a client sends
MaxBatch == 3

\* Program constants
MinRating == 1
MaxRating == 5
TMDB_MAX_RETRIES == 2

Users == {"u1", "u2"}
Media == {"m1", "m2"}

\* the media the sequential watchlist specification works on
WatchMedia == {"m1"}

\* requests in flight
Procs == {"p1", "p2"}

\* notes as the client sends them: the empty string, a text
NoteInputs == {"", "great"}

\* ratings the client may send: the ends of the valid range and one value
\* beyond each
RatingInputs == {MinRating - 1, MinRating, MaxRating, MaxRating + 1}

\* what getMovieDetails yields for an id: details with a release date in the
\* past, details with a release date in the future, or a thrown error
ProviderOutcomes == {"released", "unreleased", "fail"}

\* what getMovieDetails yields for the movies of a batch
BatchOutcomes == {"released", "unreleased", "fail"}

\* the provider during one batch: every outcome occurs, the unreleased movie
\* being the one addToWatchlist puts on the watchlist and the failing lookup
\* that of the other
BatchProviders ==
    {dm \in [Media -> BatchOutcomes] :
        dm["m1"] # "fail" /\ dm["m2"] # "unreleased"}

\* ratings of batch entries: one invalid, one valid
BatchRatings == {MinRating - 1, MaxRating - 1}

\* batches a client may send: up to MaxBatch entries {tmdb_id, rating, notes}
BatchEntry == [tmdb_id : Media, rating : BatchRatings, notes : {""}]
BatchInputs == UNION {[1 .. k -> BatchEntry] : k \in 0 .. MaxBatch}

-----------------------------------------------------------------------------
(* Responses *)

\* A tool response: isError is MCPToolResponse.isError, success and msg are
\* structuredContent.success and the message/error, report is the batch's
\* per-entry results.
Response(op, u, m, isError, success, msg) ==
    [op |-> op, user |-> u, arg |-> m, isError |-> isError,
     success |-> success, msg |-> msg, report |-> <<>>, body |-> {}]

NoResponse == Response("none", "none", "none", FALSE, FALSE, "none")

\* withToolHandler: a ZodError becomes the error response 'Invalid input',
\* any other thrown Error the error response carrying its message.
InvalidInput(op, u, m) == Response(op, u, m, TRUE, FALSE, "Invalid input")
Thrown(op, u, m, msg) == Response(op, u, m, TRUE, FALSE, msg)

-----------------------------------------------------------------------------
(* Store helpers *)

\* input.notes || null
NotesOrNull(n) == IF n = "" THEN "null" ELSE n

\* SELECT id FROM movies WHERE tmdb_id = $1
MovieRows(mv, m) == {r \in mv : r.tmdb_id = m}

\* the id the sequence of movies.id gives to the next row (the numbers a
\* rolled back INSERT used up are not kept)
NextMovieId(mv) ==
    IF mv = {} THEN 1 ELSE 1 + CHOOSE i \in {r.id : r \in mv} :
                                   \A r \in mv : r.id <= i

\* tmdb_id INTEGER UNIQUE without the constraint
UniqueTmdbIdOff(mv, m) == TRUE

\* tmdb_id INTEGER UNIQUE NOT NULL: a row with tmdb_id m may be inserted
\* when the table holds none
UniqueTmdbId(mv, m) == MovieRows(mv, m) = {}

\* INSERT INTO movies ... RETURNING id
InsertMovie(mv, m) == mv \cup {[id |-> NextMovieId(mv), tmdb_id |-> m]}

\* the movies table once the movie is there: the row the SELECT finds, or
\* the one inserted
EnsuredMovies(mv, m) == IF MovieRows(mv, m) # {} THEN mv ELSE InsertMovie(mv, m)

\* the rows of a movie on anybody's watchlist: the WHERE clause without
\* user_id
WatchlistRowsAnyUser(wl, u, m) == {r \in wl : r.movie = m}

WatchlistRows(wl, u, m) == {r \in wl : r.user = u /\ r.movie = m}
WatchedRows(wd, u, m) == {r \in wd : r.user = u /\ r.movie = m}

\* isInWatchlist: SELECT id FROM watchlist WHERE user_id = $1 AND movie_id = $2
isInWatchlist(wl, u, m) == WatchlistRows(wl, u, m) # {}

\* MarkAsWatchedSchema: rating is an integer in 1..5
ValidRating(r) == r >= MinRating /\ r <= MaxRating

\* handleMarkAsWatched without the release-date gate
ReleaseUnchecked(d) == FALSE

\* the release-date gate of handleMarkAsWatched: details with a release date
\* later than now are refused
Unreleased(d) == d = "unreleased"

-----------------------------------------------------------------------------
(* Transaction bodies.  Each yields [ok, movies, watchlist, watched, msg,  *)
(* success]: ok = FALSE means the body threw (msg is the error) and the    *)
(* transaction is rolled back.                                             *)

TxState(mv, wl, wd) == [movies |-> mv, watchlist |-> wl, watched |-> wd]

TxOk(mv, wl, wd, success, msg) ==
    [ok |-> TRUE, st |-> TxState(mv, wl, wd), success |-> success, msg |-> msg]

TxThrow(st, msg) ==
    [ok |-> FALSE, st |-> st, success |-> FALSE, msg |-> msg]

\* handleAddToWatchlist after ensureMovieExists, with the existence check
\* left out: the INSERT then hits UNIQUE(user_id, movie_id)
AddNoCheck(st, u, m, n, d, t) ==
    IF MovieRows(st.movies, m) = {} /\ d = "fail"
    THEN TxThrow(st, "Failed to fetch movie details")
    ELSE IF isInWatchlist(st.watchlist, u, m)
         THEN TxThrow(st, "duplicate key value violates unique constraint")
         ELSE TxOk(EnsuredMovies(st.movies, m),
                   st.watchlist \cup
                       {[user |-> u, movie |-> m, notes |-> NotesOrNull(n),
                         added_at |-> t]},
                   st.watched, TRUE, "Movie added to watchlist successfully")

\* handleAddToWatchlist that puts a watched movie back: the INSERT INTO
\* watchlist comes with a DELETE FROM watched for the pair
AddUnwatching(st, u, m, n, d, t) ==
    IF MovieRows(st.movies, m) = {} /\ d = "fail"
    THEN TxThrow(st, "Failed to fetch movie details")
    ELSE LET mv == EnsuredMovies(st.movies, m) IN
         IF isInWatchlist(st.watchlist, u, m)
         THEN TxOk(mv, st.watchlist, st.watched, FALSE,
                   "Movie is already in your watchlist")
         ELSE TxOk(mv,
                   st.watchlist \cup
                       {[user |-> u, movie |-> m, notes |-> NotesOrNull(n),
                         added_at |-> t]},
                   st.watched \ WatchedRows(st.watched, u, m),
                   TRUE, "Movie added to watchlist successfully")

\* handleAddToWatchlist going on after a failed fetch as after a successful
\* one
AddIgnoringFetch(st, u, m, n, d, t) ==
    LET mv == EnsuredMovies(st.movies, m) IN
    IF isInWatchlist(st.watchlist, u, m)
    THEN TxOk(mv, st.watchlist, st.watched, FALSE,
              "Movie is already in your watchlist")
    ELSE TxOk(mv,
              st.watchlist \cup
                  {[user |-> u, movie |-> m, notes |-> NotesOrNull(n),
                    added_at |-> t]},
              st.watched, TRUE, "Movie added to watchlist successfully")

\* handleAddToWatchlist: ensureMovieExists (SELECT, else fetch and INSERT),
\* isInWatchlist, INSERT INTO watchlist
handleAddToWatchlist(st, u, m, n, d, t) ==
    IF MovieRows(st.movies, m) = {} /\ d = "fail"
    THEN TxThrow(st, "Failed to fetch movie details")
    ELSE LET mv == EnsuredMovies(st.movies, m) IN
         IF isInWatchlist(st.watchlist, u, m)
         THEN TxOk(mv, st.watchlist, st.watched, FALSE,
                   "Movie is already in your watchlist")
         ELSE TxOk(mv,
                   st.watchlist \cup
                       {[user |-> u, movie |-> m, notes |-> NotesOrNull(n),
                         added_at |-> t]},
                   st.watched, TRUE, "Movie added to watchlist successfully")

\* handleMarkAsWatched: getMovieDetails and the release gate; SELECT the movie,
\* else INSERT it; SELECT the watched row: UPDATE it and return, else INSERT
\* it and DELETE the watchlist row.  (watched_at is not kept in the rows.)
handleMarkAsWatched(st, u, m, r, n, d) ==
    IF d = "fail"
    THEN TxThrow(st, "Failed to fetch movie details")
    ELSE IF Unreleased(d)
    THEN TxThrow(st, "hasn't been released yet")
    ELSE LET mv == EnsuredMovies(st.movies, m)
             row == [user |-> u, movie |-> m, rating |-> r,
                     notes |-> NotesOrNull(n)]
         IN  IF WatchedRows(st.watched, u, m) # {}
             THEN TxOk(mv, st.watchlist,
                       {IF w.user = u /\ w.movie = m THEN row ELSE w :
                            w \in st.watched},
                       TRUE, "Updated watch record with new rating.")
             ELSE TxOk(mv,
                       st.watchlist \ WatchlistRows(st.watchlist, u, m),
                       st.watched \cup {row},
                       TRUE,
                       IF WatchlistRows(st.watchlist, u, m) # {}
                       THEN "Movie marked as watched and removed from watchlist."
                       ELSE "Movie marked as watched.")

\* transaction without the ROLLBACK: what the callback wrote before it threw
\* stays
transactionNoRollback(before, tx) == tx.st

\* transaction(callback): BEGIN, the callback, COMMIT; ROLLBACK and rethrow
\* when the callback throws.  The committed state is the callback's on
\* success and the state before BEGIN otherwise.
transaction(before, tx) == IF tx.ok THEN tx.st ELSE before

\* handleGetWatchedMovies: watched JOIN movies for the user, with the optional
\* rating filter (min = 0 stands for no filter)
handleGetWatchedMovies(mv, wd, u, min) ==
    {[tmdb_id |-> w.movie, userRating |-> w.rating, notes |-> w.notes] :
        w \in {x \in wd : x.user = u /\ MovieRows(mv, x.movie) # {}
                           /\ (min = 0 \/ x.rating >= min)}}

\* getWatchlist: watchlist JOIN movies for the user
getWatchlist(mv, wl, u) ==
    {[tmdb_id |-> w.movie, notes |-> w.notes, added_at |-> w.added_at] :
        w \in {x \in wl : x.user = u /\ MovieRows(mv, x.movie) # {}}}

-----------------------------------------------------------------------------
(* The watchlist / watched tools, one call per action *)

\* addToWatchlist: withSimpleToolHandler around transaction(handleAddToWatchlist)
AddToWatchlist(u, m, n, d) ==
    LET tx == handleAddToWatchlist(TxState(movies, watchlist, watched),
                                   u, m, n, d, now)
        st == transaction(TxState(movies, watchlist, watched), tx)
    IN  /\ movies' = st.movies
        /\ watchlist' = st.watchlist
        /\ watched' = st.watched
        /\ result' = IF tx.ok
                     THEN Response("addToWatchlist", u, m, FALSE, tx.success, tx.msg)
                     ELSE Thrown("addToWatchlist", u, m, tx.msg)
        /\ UNCHANGED <<prefVars, now, procVars>>

\* removeFromWatchlist: SELECT the movie (throws when absent), DELETE the
\* watchlist row RETURNING id, report whether a row was deleted
RemoveFromWatchlist(u, m) ==
    /\ IF MovieRows(movies, m) = {}
       THEN /\ result' = Thrown("removeFromWatchlist", u, m,
                                "Movie not found in database")
            /\ UNCHANGED watchlist
       ELSE /\ watchlist' = watchlist \ WatchlistRows(watchlist, u, m)
            /\ result' = IF WatchlistRows(watchlist, u, m) = {}
                         THEN Response("removeFromWatchlist", u, m, FALSE, FALSE,
                                       "was not in your watchlist")
                         ELSE Response("removeFromWatchlist", u, m, FALSE, TRUE,
                                       "Removed from your watchlist")
    /\ UNCHANGED <<movies, watched, prefVars, now, procVars>>

\* markAsWatched: MarkAsWatchedSchema, then transaction(handleMarkAsWatched)
MarkAsWatched(u, m, r, n, d) ==
    IF ~ValidRating(r)
    THEN /\ result' = InvalidInput("markAsWatched", u, m)
         /\ UNCHANGED <<watchVars, prefVars, now, procVars>>
    ELSE LET tx == handleMarkAsWatched(TxState(movies, watchlist, watched),
                                       u, m, r, n, d)
             st == transaction(TxState(movies, watchlist, watched), tx)
         IN  /\ movies' = st.movies
             /\ watchlist' = st.watchlist
             /\ watched' = st.watched
             /\ result' = IF tx.ok
                          THEN Response("markAsWatched", u, m, FALSE, tx.success, tx.msg)
                          ELSE Thrown("markAsWatched", u, m, tx.msg)
             /\ UNCHANGED <<prefVars, now, procVars>>

\* NOW() moves on between calls
Tick ==
    /\ now < MaxClock
    /\ now' = now + 1
    /\ UNCHANGED <<watchVars, prefVars, result, procVars>>

-----------------------------------------------------------------------------
(* markAsWatchedBatch.  A request is received (BatchCall), handled          *)
(* (BatchRun) and its response delivered (Deliver).                         *)

Idle == [user |-> "none"]

BatchItem(e, success, msg) ==
    [tmdb_id |-> e.tmdb_id, success |-> success, msg |-> msg]

\* MarkAsWatchedBatchSchema.parse: at least one entry, every entry a valid
\* MarkAsWatchedSchema
MarkAsWatchedBatchSchema(entries) ==
    /\ Len(entries) >= 1
    /\ \A i \in 1 .. Len(entries) : ValidRating(entries[i].rating)

\* the callback of the transactional path: handleMarkAsWatched for each entry
\* in order on the one client; the first throw ends the loop.  Yields
\* [ok, st, report, msg], st being what the client has written so far.
RECURSIVE BatchCallback(_, _, _, _, _, _)
BatchCallback(st, u, entries, dm, i, report) ==
    IF i > Len(entries)
    THEN [ok |-> TRUE, st |-> st, report |-> report, msg |-> "ok"]
    ELSE LET e == entries[i]
             tx == handleMarkAsWatched(st, u, e.tmdb_id, e.rating, e.notes,
                                       dm[e.tmdb_id])
         IN  IF tx.ok
             THEN BatchCallback(tx.st, u, entries, dm, i + 1,
                                Append(report, BatchItem(e, tx.success, tx.msg)))
             ELSE [ok |-> FALSE, st |-> tx.st, report |-> <<>>, msg |-> tx.msg]

RECURSIVE BestEffortNoCatch(_, _, _, _, _, _)
RECURSIVE BestEffort(_, _, _, _, _, _)

\* the best-effort loop without the try/catch around an entry's transaction:
\* the first thrown error leaves the loop and the function
BestEffortNoCatch(st, u, entries, dm, i, report) ==
    IF i > Len(entries)
    THEN [ok |-> TRUE, st |-> st, report |-> report, msg |-> "ok"]
    ELSE LET e == entries[i]
             tx == handleMarkAsWatched(st, u, e.tmdb_id, e.rating, e.notes,
                                       dm[e.tmdb_id])
         IN  IF tx.ok
             THEN BestEffortNoCatch(transaction(st, tx), u, entries, dm, i + 1,
                                    Append(report,
                                           BatchItem(e, tx.success, tx.msg)))
             ELSE [ok |-> FALSE, st |-> st, report |-> <<>>, msg |-> tx.msg]

\* the best-effort path: one transaction per entry, a thrown error becomes
\* the entry's {tmdb_id, success: false, message}
BestEffort(st, u, entries, dm, i, report) ==
    IF i > Len(entries)
    THEN [ok |-> TRUE, st |-> st, report |-> report, msg |-> "ok"]
    ELSE LET e == entries[i]
             tx == handleMarkAsWatched(st, u, e.tmdb_id, e.rating, e.notes,
                                       dm[e.tmdb_id])
         IN  BestEffort(transaction(st, tx), u, entries, dm, i + 1,
                        Append(report,
                               BatchItem(e, tx.ok /\ tx.success, tx.msg)))

\* markAsWatchedBatch: parse (a ZodError leaves the function before any
\* transaction), then the best-effort loop or the one transaction
markAsWatchedBatch(st, u, entries, dm, transactional) ==
    IF ~MarkAsWatchedBatchSchema(entries)
    THEN [ok |-> FALSE, st |-> st, report |-> <<>>, msg |-> "ZodError"]
    ELSE IF ~transactional
    THEN BestEffort(st, u, entries, dm, 1, <<>>)
    ELSE LET cb == BatchCallback(st, u, entries, dm, 1, <<>>)
         IN  [cb EXCEPT !.st = transaction(st, cb)]

\* callTool without its catch-all: an error thrown by markAsWatchedBatch
\* leaves callTool as an exception
BatchResponseNoCatch(u, out, transactional) ==
    IF out.ok
    THEN [Response("markAsWatchedBatch", u, "batch", FALSE,
                   transactional \/ \A i \in 1 .. Len(out.report) :
                                       out.report[i].success,
                   "Batch mark as watched")
          EXCEPT !.report = out.report]
    ELSE [Thrown("exception", u, "batch", out.msg) EXCEPT !.success = TRUE]

\* callTool's response for mark_as_watched_batch: the function's return value,
\* or callTool's catch-all error response when it threw
BatchResponse(u, out, transactional) ==
    IF out.ok
    THEN [Response("markAsWatchedBatch", u, "batch", FALSE,
                   transactional \/ \A i \in 1 .. Len(out.report) :
                                       out.report[i].success,
                   "Batch mark as watched")
          EXCEPT !.report = out.report]
    ELSE Thrown("markAsWatchedBatch", u, "batch", out.msg)

BatchCall(p, u, entries, dm, transactional) ==
    /\ pc[p] = "idle"
    /\ pc' = [pc EXCEPT ![p] = "batch"]
    /\ loc' = [loc EXCEPT ![p] = [user |-> u, entries |-> entries, dm |-> dm,
                                  transaction |-> transactional]]
    /\ result' = NoResponse
    /\ UNCHANGED <<watchVars, prefVars, now>>

BatchRun(p) ==
    /\ pc[p] = "batch"
    /\ LET req == loc[p]
           out == markAsWatchedBatch(TxState(movies, watchlist, watched),
                                     req.user, req.entries, req.dm,
                                     req.transaction)
       IN  /\ movies' = out.st.movies
           /\ watchlist' = out.st.watchlist
           /\ watched' = out.st.watched
           /\ result' = BatchResponse(req.user, out, req.transaction)
    /\ pc' = [pc EXCEPT ![p] = "done"]
    /\ UNCHANGED <<prefVars, now, loc>>

\* the response has gone to the client
Deliver(p) ==
    /\ pc[p] = "done"
    /\ pc' = [pc EXCEPT ![p] = "idle"]
    /\ loc' = [loc EXCEPT ![p] = Idle]
    /\ result' = NoResponse
    /\ UNCHANGED <<watchVars, prefVars, now>>

-----------------------------------------------------------------------------
(* Preference values.  A JSON value met in a preference list is a string,   *)
(* a number (v is its decimal text), an object {name: v} or an object       *)
(* {name: {name: v}}.  A stored value is a list of such items or a scalar.  *)
(* JSON.stringify and the jsonb column give these values back as they were. *)

Str(s) == [t |-> "str", v |-> s]
Num(s) == [t |-> "num", v |-> s]
Obj(s) == [t |-> "obj", v |-> s]
Obj2(s) == [t |-> "obj2", v |-> s]

\* further shapes an item can have: {name: <number>} (s its decimal text),
\* {name: {name: {name: s}}}, and an object that has no name
ObjNum(s) == [t |-> "objnum", v |-> s]
Obj3(s) == [t |-> "obj3", v |-> s]
Rec == [t |-> "rec", v |-> "none"]

ListV(items) == [t |-> "list", v |-> items]
ScalarV(s) == [t |-> "scalar", v |-> <<Str(s)>>]

\* the value of a {key} sent without a value: z.any() lets it through,
\* JSON.stringify(undefined) is undefined and the query parameter is NULL
Undefined == [t |-> "undefined", v |-> <<>>]

\* preferences.value JSONB NOT NULL
NotNullMsg == "null value in column value violates not-null constraint"

\* Array.isArray
isArray(value) == value.t = "list"

\* String(item): a string is itself, a number its decimal text, an object
\* "[object Object]"
String(item) ==
    IF item.t \in {"str", "num"} THEN item.v ELSE "[object Object]"

\* normalizePersonName that hands the item back as it came
normalizePersonNameRaw(item) == item

\* normalizePersonName: a string is itself; an object with a name yields
\* String(name), or String(name.name) when the name is itself an object with
\* a name; anything else String(item)
normalizePersonName(item) ==
    CASE item.t = "str" -> item
      [] item.t = "obj" -> Str(item.v)
      [] item.t = "objnum" -> Str(String(Num(item.v)))
      [] item.t = "obj2" -> Str(item.v)
      [] item.t = "obj3" -> Str(String(Obj(item.v)))
      [] OTHER -> Str(String(item))

\* normalizePersonNames: people.map(normalizePersonName)
normalizePersonNames(people) ==
    [i \in 1 .. Len(people) |-> normalizePersonName(people[i])]

\* Array.prototype.includes on an array of strings
includes(names, name) == \E i \in 1 .. Len(names) : names[i] = name

ListKeys == {"favorite_actors", "favorite_directors", "favorite_genres"}
PersonKeys == {"favorite_actors", "favorite_directors"}

PrefRows(pf, u, k) == {r \in pf : r.user = u /\ r.key = k}

\* the merge loop of the person keys: merged starts as the existing names;
\* each new name that existingNames does not include is pushed
RECURSIVE MergeNames(_, _, _)
MergeNames(existingNames, newNames, merged) ==
    IF newNames = <<>>
    THEN merged
    ELSE MergeNames(existingNames, Tail(newNames),
                    IF includes(existingNames, Head(newNames))
                    THEN merged
                    ELSE Append(merged, Head(newNames)))

\* the merge that lets the incoming list replace the stored one
MergeGenresReplace(existingArray, incoming) == incoming

\* the merge of favorite_genres: the existing array followed by the incoming
\* items whose String() is not the String() of an existing item
MergeGenres(existingArray, incoming) ==
    LET existingSet == {String(existingArray[i]) : i \in 1 .. Len(existingArray)}
        newValues == SelectSeq(incoming, LAMBDA item : String(item) \notin existingSet)
    IN  existingArray \o newValues

\* the value handleSetPreferences stores for one {key, value} of the request,
\* pf being what the transaction's client sees
normalizedValue(pf, u, pref) ==
    IF pref.key \in ListKeys /\ isArray(pref.value)
    THEN LET rows == PrefRows(pf, u, pref.key)
             existingValue == IF rows # {}
                              THEN (CHOOSE r \in rows : TRUE).value
                              ELSE ListV(<<>>)
             existingArray == IF isArray(existingValue)
                              THEN existingValue.v
                              ELSE <<>>
         IN  IF pref.key \in PersonKeys
             THEN LET existingNames == normalizePersonNames(existingArray)
                      newNames == normalizePersonNames(pref.value.v)
                  IN  ListV(MergeNames(existingNames, newNames, existingNames))
             ELSE ListV(MergeGenres(existingArray, pref.value.v))
    ELSE pref.value

\* INSERT INTO preferences ... ON CONFLICT (user_id, key) DO UPDATE SET value
\* (updated_at is not kept in the rows)
Upsert(pf, u, k, value) ==
    (pf \ PrefRows(pf, u, k)) \cup {[user |-> u, key |-> k, value |-> value]}

\* the loop of handleSetPreferences' transaction: each {key, value} in order,
\* each reading what the ones before it wrote.  The INSERT of a NULL value
\* throws; st is then what the client has written so far.
RECURSIVE SetLoop(_, _, _, _)
SetLoop(pf, u, preferences, i) ==
    IF i > Len(preferences)
    THEN [ok |-> TRUE, st |-> pf, msg |-> "ok"]
    ELSE LET value == normalizedValue(pf, u, preferences[i])
         IN  IF value.t = "undefined"
             THEN [ok |-> FALSE, st |-> pf, msg |-> NotNullMsg]
             ELSE SetLoop(Upsert(pf, u, preferences[i].key, value),
                          u, preferences, i + 1)

\* SetPreferencesSchema: at least one preference, every key non-empty
SetPreferencesSchema(preferences) ==
    /\ Len(preferences) >= 1
    /\ \A i \in 1 .. Len(preferences) : preferences[i].key # ""

\* item !== validatedInput.item on JSON values: strings and numbers are equal
\* when of the same type and value, an object never equals a string or number
StrictEq(a, b) == a.t \in {"str", "num"} /\ a = b

\* item.name !== validatedInput.item: the name of {name: v} is the string v,
\* the name of {name: {name: v}} an object, the name of a string or a number
\* undefined
NameEq(a, b) == a.t = "obj" /\ b = Str(a.v)

\* handleRemovePreferenceItem without its two throws: a value that is missing
\* or not an array is taken as an empty array, and the DELETE runs
RemoveUnchecked(pf, u, k, item) ==
    LET rows == PrefRows(pf, u, k)
        cur == IF rows # {} /\ isArray((CHOOSE r \in rows : TRUE).value)
               THEN (CHOOSE r \in rows : TRUE).value.v
               ELSE <<>>
        byName == cur # <<>> /\ cur[1].t \in {"obj", "obj2"}
        updatedValue == IF byName
                        THEN SelectSeq(cur, LAMBDA x : ~NameEq(x, item))
                        ELSE SelectSeq(cur, LAMBDA x : ~StrictEq(x, item))
    IN  IF updatedValue = <<>>
        THEN [ok |-> TRUE, st |-> pf \ rows,
              msg |-> "Preference deleted because it's now empty."]
        ELSE [ok |-> TRUE, st |-> Upsert(pf, u, k, ListV(updatedValue)),
              msg |-> "Removed"]

\* the transaction of handleRemovePreferenceItem: SELECT the value (throws
\* when the key is not there or not an array), filter, DELETE the row when
\* the array is now empty and UPDATE it otherwise
handleRemovePreferenceItem(pf, u, k, item) ==
    LET rows == PrefRows(pf, u, k) IN
    IF rows = {}
    THEN [ok |-> FALSE, st |-> pf, msg |-> "not found"]
    ELSE LET currentValue == (CHOOSE r \in rows : TRUE).value IN
         IF ~isArray(currentValue)
         THEN [ok |-> FALSE, st |-> pf, msg |-> "is not an array"]
         ELSE LET cur == currentValue.v
                  byName == cur # <<>> /\ cur[1].t \in {"obj", "obj2"}
                  updatedValue ==
                      IF byName
                      THEN SelectSeq(cur, LAMBDA x : ~NameEq(x, item))
                      ELSE SelectSeq(cur, LAMBDA x : ~StrictEq(x, item))
              IN  IF updatedValue = <<>>
                  THEN [ok |-> TRUE, st |-> pf \ rows,
                        msg |-> "Preference deleted because it's now empty."]
                  ELSE [ok |-> TRUE,
                        st |-> Upsert(pf, u, k, ListV(updatedValue)),
                        msg |-> "Removed"]

\* searchPeople for every name finds a profile
NoLookupFails == {}

\* enrichPersonNames that leaves out the names whose lookup failed
enrichFoundOnly(names, failed) ==
    LET found == SelectSeq(names, LAMBDA n : n.v \notin failed)
    IN  ListV([i \in 1 .. Len(found) |->
                  [t |-> "person", v |-> found[i].v, profile_url |-> "url"]])

\* enrichPersonNames: each name becomes {name, profile_url, id}; failed holds
\* the names for which searchPeople throws or finds nobody, and those get
\* profile_url null
enrichPersonNames(names, failed) ==
    ListV([i \in 1 .. Len(names) |->
              [t |-> "person", v |-> names[i].v,
               profile_url |-> IF names[i].v \in failed THEN "null" ELSE "url"]])

\* what getPreferences builds from the table: a {key, value} per row of the
\* user, the person keys enriched (the order of the rows is not kept)
PrefView(pf, u, failed) ==
    {[key |-> r.key,
      value |-> IF r.key \in PersonKeys /\ isArray(r.value)
                THEN enrichPersonNames(normalizePersonNames(r.value.v), failed)
                ELSE r.value] : r \in {x \in pf : x.user = u}}

-----------------------------------------------------------------------------
(* The Redis helpers.  ok says whether the Redis command succeeds; a failed *)
(* command is caught and logged inside the helper.  cache[u] is the entry   *)
(* user:<u>:preferences, <<>> when absent.                                  *)

\* getCached: the entry, or null (<<>>) when absent or when GET fails
getCached(c, u, ok) == IF ok THEN c[u] ELSE <<>>

\* setCached: SETEX, nothing when it fails
setCached(c, u, value, ok) == IF ok THEN [c EXCEPT ![u] = <<value>>] ELSE c

\* deleteCached: DEL, nothing when it fails
deleteCached(c, u, ok) == IF ok THEN [c EXCEPT ![u] = <<>>] ELSE c

\* getPreferences: the cached response when there is one, else the view built
\* from the table, which is cached before it is returned.  Yields the
\* response's preferences and the cache afterwards.
getPreferences(pf, c, u, g, s, failed) ==
    LET cached == getCached(c, u, g) IN
    IF cached # <<>>
    THEN [body |-> cached[1], cache |-> c]
    ELSE [body |-> PrefView(pf, u, failed),
          cache |-> setCached(c, u, PrefView(pf, u, failed), s)]

-----------------------------------------------------------------------------
(* The preference tools, one call per action.  d, g and s say whether the   *)
(* DEL, GET and SETEX of the call succeed.                                  *)

PrefResponse(op, u, arg, msg, body) ==
    [Response(op, u, arg, FALSE, TRUE, msg) EXCEPT !.body = body]

\* getPreferences as a tool call
GetPreferences(u, g, s, failed) ==
    LET out == getPreferences(prefs, cache, u, g, s, failed)
    IN  /\ cache' = out.cache
        /\ result' = PrefResponse("getPreferences", u, "none", "Retrieved",
                                  out.body)
        /\ UNCHANGED <<watchVars, prefs, now, procVars>>

\* setPreferences: SetPreferencesSchema, the transaction (a throw leaves the
\* handler before deleteCached), deleteCached, then getPreferences for the
\* response
SetPreferences(u, preferences, d, g, s, failed) ==
    IF ~SetPreferencesSchema(preferences)
    THEN /\ result' = InvalidInput("setPreferences", u, preferences)
         /\ UNCHANGED <<watchVars, prefVars, now, procVars>>
    ELSE LET tx == SetLoop(prefs, u, preferences, 1)
             committed == transaction(prefs, tx)
             out == getPreferences(committed, deleteCached(cache, u, d),
                                   u, g, s, failed)
         IN  /\ prefs' = committed
             /\ cache' = IF tx.ok THEN out.cache ELSE cache
             /\ result' = IF tx.ok
                          THEN PrefResponse("setPreferences", u, preferences,
                                            "Successfully set", out.body)
                          ELSE Thrown("setPreferences", u, preferences, tx.msg)
             /\ UNCHANGED <<watchVars, now, procVars>>

\* removePreferenceItem: the transaction (a throw leaves the handler before
\* deleteCached), deleteCached, then getPreferences for the response
RemovePreferenceItem(u, k, item, d, g, s, failed) ==
    LET tx == handleRemovePreferenceItem(prefs, u, k, item)
        committed == transaction(prefs, tx)
        out == getPreferences(committed, deleteCached(cache, u, d), u, g, s,
                              failed)
    IN  IF ~tx.ok
        THEN /\ result' = Thrown("removePreferenceItem", u,
                                 [key |-> k, item |-> item], tx.msg)
             /\ UNCHANGED <<watchVars, prefVars, now, procVars>>
        ELSE /\ prefs' = committed
             /\ cache' = out.cache
             /\ result' = PrefResponse("removePreferenceItem", u,
                                       [key |-> k, item |-> item], tx.msg,
                                       out.body)
             /\ UNCHANGED <<watchVars, now, procVars>>

\* the TTL of the cached response runs out
CacheExpire(u) ==
    /\ cache[u] # <<>>
    /\ cache' = [cache EXCEPT ![u] = <<>>]
    /\ UNCHANGED <<watchVars, prefs, now, result, procVars>>

-----------------------------------------------------------------------------
(* The preference tools, request by request: a call is split at its awaits, *)
(* so that the calls of several requests interleave.  The requests set one  *)
(* {key, value}.  Redis is up.                                              *)

Request(op, u, arg) ==
    [user |-> u, op |-> op, arg |-> arg, snapshot |-> {}, view |-> {},
     msg |-> "none"]

\* a get_preferences request arrives
CallGet(p, u) ==
    /\ pc[p] = "idle"
    /\ pc' = [pc EXCEPT ![p] = "get_cache"]
    /\ loc' = [loc EXCEPT ![p] = Request("getPreferences", u, "none")]
    /\ UNCHANGED <<watchVars, prefVars, now, result>>

\* a set_preferences request arrives; SetPreferencesSchema.parse
CallSet(p, u, preferences) ==
    /\ pc[p] = "idle"
    /\ SetPreferencesSchema(preferences)
    /\ pc' = [pc EXCEPT ![p] = "txn_select"]
    /\ loc' = [loc EXCEPT ![p] = Request("setPreferences", u, preferences)]
    /\ UNCHANGED <<watchVars, prefVars, now, result>>

\* a remove_preference_item request arrives
CallRemove(p, u, k, item) ==
    /\ pc[p] = "idle"
    /\ pc' = [pc EXCEPT ![p] = "txn_select"]
    /\ loc' = [loc EXCEPT ![p] = Request("removePreferenceItem", u,
                                         [key |-> k, item |-> item])]
    /\ UNCHANGED <<watchVars, prefVars, now, result>>

\* the SELECT of the transaction with the deleteCached moved in front of it
TxnSelectInvalidating(p) ==
    /\ pc[p] = "txn_select"
    /\ LET req == loc[p]
           tx == handleRemovePreferenceItem(prefs, req.user, req.arg.key,
                                            req.arg.item)
       IN  IF req.op = "removePreferenceItem" /\ ~tx.ok
           THEN /\ pc' = [pc EXCEPT ![p] = "return"]
                /\ loc' = [loc EXCEPT ![p].msg = tx.msg]
           ELSE /\ pc' = [pc EXCEPT ![p] = "txn_write"]
                /\ loc' = [loc EXCEPT ![p].snapshot = prefs]
    /\ cache' = deleteCached(cache, loc[p].user, TRUE)
    /\ UNCHANGED <<watchVars, prefs, now, result>>

\* BEGIN and the SELECT of the transaction: the request sees what is
\* committed at this moment.  removePreferenceItem throws here when the key
\* is not there or not an array: ROLLBACK, and the error is the response.
TxnSelect(p) ==
    /\ pc[p] = "txn_select"
    /\ LET req == loc[p]
           tx == handleRemovePreferenceItem(prefs, req.user, req.arg.key,
                                            req.arg.item)
       IN  IF req.op = "removePreferenceItem" /\ ~tx.ok
           THEN /\ pc' = [pc EXCEPT ![p] = "return"]
                /\ loc' = [loc EXCEPT ![p].msg = tx.msg]
           ELSE /\ pc' = [pc EXCEPT ![p] = "txn_write"]
                /\ loc' = [loc EXCEPT ![p].snapshot = prefs]
    /\ UNCHANGED <<watchVars, prefVars, now, result>>

\* the write of the transaction and its COMMIT: the value computed from what
\* the SELECT saw goes to the row as it is now.  setPreferences upserts;
\* removePreferenceItem deletes the row, or updates it if it is still there.
TxnWrite(p) ==
    /\ pc[p] = "txn_write"
    /\ LET req == loc[p]
           u == req.user
       IN  IF req.op = "setPreferences"
           THEN /\ prefs' = transaction(prefs,
                                [ok |-> TRUE,
                                 st |-> Upsert(prefs, u, req.arg[1].key,
                                               normalizedValue(req.snapshot, u,
                                                               req.arg[1]))])
                /\ loc' = [loc EXCEPT ![p].msg = "Successfully set"]
           ELSE LET tx == handleRemovePreferenceItem(req.snapshot, u,
                                                     req.arg.key, req.arg.item)
                    rows == PrefRows(prefs, u, req.arg.key)
                    updated == PrefRows(tx.st, u, req.arg.key)
                IN  /\ prefs' = IF updated = {} \/ rows = {}
                                THEN prefs \ rows
                                ELSE (prefs \ rows) \cup updated
                    /\ loc' = [loc EXCEPT ![p].msg = tx.msg]
    /\ pc' = [pc EXCEPT ![p] = "invalidate"]
    /\ UNCHANGED <<watchVars, cache, now, result>>

\* deleteCached after the transaction; getPreferences follows
Invalidate(p) ==
    /\ pc[p] = "invalidate"
    /\ cache' = deleteCached(cache, loc[p].user, TRUE)
    /\ pc' = [pc EXCEPT ![p] = "get_cache"]
    /\ UNCHANGED <<watchVars, prefs, now, result, loc>>

\* getPreferences: getCached; a hit is the response
GetCache(p) ==
    /\ pc[p] = "get_cache"
    /\ LET cached == getCached(cache, loc[p].user, TRUE)
       IN  IF cached # <<>>
           THEN /\ loc' = [loc EXCEPT ![p].view = cached[1]]
                /\ pc' = [pc EXCEPT ![p] = "return"]
           ELSE /\ pc' = [pc EXCEPT ![p] = "get_query"]
                /\ UNCHANGED loc
    /\ UNCHANGED <<watchVars, prefVars, now, result>>

\* getPreferences: the SELECT on the pool; the enrichment calls follow
GetQuery(p) ==
    /\ pc[p] = "get_query"
    /\ loc' = [loc EXCEPT ![p].view = PrefView(prefs, loc[p].user,
                                                   NoLookupFails)]
    /\ pc' = [pc EXCEPT ![p] = "get_set"]
    /\ UNCHANGED <<watchVars, prefVars, now, result>>

\* getPreferences: setCached of the response built from the SELECT
GetSet(p) ==
    /\ pc[p] = "get_set"
    /\ cache' = setCached(cache, loc[p].user, loc[p].view, TRUE)
    /\ pc' = [pc EXCEPT ![p] = "return"]
    /\ UNCHANGED <<watchVars, prefs, now, result, loc>>

\* the response goes to the client
Return(p) ==
    /\ pc[p] = "return"
    /\ result' = IF loc[p].op = "removePreferenceItem"
                    /\ loc[p].msg \in {"not found", "is not an array"}
                 THEN Thrown(loc[p].op, loc[p].user, loc[p].arg, loc[p].msg)
                 ELSE PrefResponse(loc[p].op, loc[p].user, loc[p].arg,
                                   loc[p].msg, loc[p].view)
    /\ pc' = [pc EXCEPT ![p] = "idle"]
    /\ loc' = [loc EXCEPT ![p] = Idle]
    /\ UNCHANGED <<watchVars, prefVars, now>>

-----------------------------------------------------------------------------
(* addToWatchlist and markAsWatched, request by request: a call is split at *)
(* its statements.  What a transaction has inserted is pending (seen by its *)
(* own statements only) until its COMMIT; a SELECT sees what is committed   *)
(* at that moment.  The last statement of a call and its COMMIT are one     *)
(* step.  Ratings and notes are fixed.                                      *)

MoviesKeyMsg == "duplicate key value violates unique constraint movies_tmdb_id_key"
WatchlistKeyMsg == "duplicate key value violates unique constraint watchlist_user_id_movie_id_key"
WatchedKeyMsg == "duplicate key value violates unique constraint watched_user_id_movie_id_key"

\* attempt counts the attempts of fetchJsonWithRetry, details is what
\* getMovieDetails has yielded ("none" until it has)
WatchRequest(op, u, m) ==
    [user |-> u, op |-> op, arg |-> m, pending |-> {}, attempt |-> 0,
     details |-> "none"]

\* the movies rows other open transactions have inserted and not committed
OthersPending(p) ==
    UNION {loc[q].pending : q \in {x \in Procs : x # p /\ pc[x] \in
               {"movie_insert", "wl_select", "wl_insert", "wd_select",
                "wd_update", "wd_insert"}}}

\* the request ends: its response, its connection released
Finish(p, response) ==
    /\ result' = response
    /\ pc' = [pc EXCEPT ![p] = "idle"]
    /\ loc' = [loc EXCEPT ![p] = Idle]

\* ROLLBACK and the error response of withToolHandler
RollBack(p, msg) ==
    /\ Finish(p, Thrown(loc[p].op, loc[p].user, loc[p].arg, msg))
    /\ UNCHANGED <<watchVars, prefVars, now>>

Goto(p, label) ==
    /\ pc' = [pc EXCEPT ![p] = label]
    /\ UNCHANGED <<watchVars, prefVars, now, result, loc>>

CallAdd(p, u, m) ==
    /\ pc[p] = "idle"
    /\ pc' = [pc EXCEPT ![p] = "movie_select"]
    /\ loc' = [loc EXCEPT ![p] = WatchRequest("addToWatchlist", u, m)]
    /\ UNCHANGED <<watchVars, prefVars, now, result>>

CallMark(p, u, m) ==
    /\ pc[p] = "idle"
    /\ pc' = [pc EXCEPT ![p] = "mark_fetch"]
    /\ loc' = [loc EXCEPT ![p] = WatchRequest("markAsWatched", u, m)]
    /\ UNCHANGED <<watchVars, prefVars, now, result>>

\* how one attempt of fetchJsonWithRetry ends: the response is there (with a
\* release date in the past or in the future), fetch or the status check
\* throws, or the AbortController aborts the request at the timeout
AttemptOutcomes == {"released", "unreleased", "error", "timeout"}

\* getMovieDetails is awaited: by handleMarkAsWatched before its queries, by
\* ensureMovieExists (under addToWatchlist) after the SELECT found no row
Fetching(p) ==
    /\ pc[p] \in {"mark_fetch", "movie_insert"}
    /\ loc[p].details = "none"

\* fetchJsonWithRetry giving up one attempt later
FetchAttemptExtra(p, o) ==
    /\ Fetching(p)
    /\ loc' = [loc EXCEPT
                 ![p].attempt = @ + 1,
                 ![p].details =
                     IF o \in {"released", "unreleased"} THEN o
                     ELSE IF loc[p].attempt + 1 >= TMDB_MAX_RETRIES + 2
                          THEN "fail" ELSE "none"]
    /\ UNCHANGED <<watchVars, prefVars, now, result, pc>>

\* one attempt of fetchJsonWithRetry under getMovieDetails: pRetry runs the
\* first attempt and, after a failed one, up to TMDB_MAX_RETRIES more; when
\* the last one has failed getMovieDetails throws
FetchAttempt(p, o) ==
    /\ Fetching(p)
    /\ loc' = [loc EXCEPT
                 ![p].attempt = @ + 1,
                 ![p].details =
                     IF o \in {"released", "unreleased"} THEN o
                     ELSE IF loc[p].attempt + 1 >= TMDB_MAX_RETRIES + 1
                          THEN "fail" ELSE "none"]
    /\ UNCHANGED <<watchVars, prefVars, now, result, pc>>

\* handleMarkAsWatched: getMovieDetails and the release gate
MarkFetch(p, d) ==
    /\ pc[p] = "mark_fetch"
    /\ IF d = "fail" THEN RollBack(p, "Failed to fetch movie details")
       ELSE IF Unreleased(d) THEN RollBack(p, "hasn't been released yet")
       ELSE Goto(p, "movie_select")

\* SELECT id FROM movies WHERE tmdb_id = $1
MovieSelect(p) ==
    /\ pc[p] = "movie_select"
    /\ IF MovieRows(movies, loc[p].arg) = {}
       THEN Goto(p, "movie_insert")
       ELSE Goto(p, IF loc[p].op = "addToWatchlist"
                    THEN "wl_select" ELSE "wd_select")

\* ensureMovieExists fetches the details (d) first; then INSERT INTO movies.
\* The INSERT waits while another open transaction has inserted the tmdb_id,
\* and fails on the unique index when a committed row has it.
MovieInsert(p, d) ==
    /\ pc[p] = "movie_insert"
    /\ UniqueTmdbId(OthersPending(p), loc[p].arg)
    /\ IF loc[p].op = "addToWatchlist" /\ d = "fail"
       THEN RollBack(p, "Failed to fetch movie details")
       ELSE IF ~UniqueTmdbId(movies, loc[p].arg)
       THEN RollBack(p, MoviesKeyMsg)
       ELSE /\ loc' = [loc EXCEPT ![p].pending =
                          {[id |-> NextMovieId(movies \cup OthersPending(p)),
                            tmdb_id |-> loc[p].arg]}]
            /\ pc' = [pc EXCEPT ![p] = IF loc[p].op = "addToWatchlist"
                                       THEN "wl_select" ELSE "wd_select"]
            /\ UNCHANGED <<watchVars, prefVars, now, result>>

\* isInWatchlist; when the row is there the handler returns and COMMIT follows
WlSelect(p) ==
    /\ pc[p] = "wl_select"
    /\ IF isInWatchlist(watchlist, loc[p].user, loc[p].arg)
       THEN /\ movies' = movies \cup loc[p].pending
            /\ Finish(p, Response(loc[p].op, loc[p].user, loc[p].arg, FALSE,
                                  FALSE, "Movie is already in your watchlist"))
            /\ UNCHANGED <<watchlist, watched, prefVars, now>>
       ELSE Goto(p, "wl_insert")

\* INSERT INTO watchlist, and COMMIT
WlInsert(p) ==
    /\ pc[p] = "wl_insert"
    /\ IF isInWatchlist(watchlist, loc[p].user, loc[p].arg)
       THEN RollBack(p, WatchlistKeyMsg)
       ELSE /\ movies' = movies \cup loc[p].pending
            /\ watchlist' = watchlist \cup
                   {[user |-> loc[p].user, movie |-> loc[p].arg,
                     notes |-> NotesOrNull(""), added_at |-> now]}
            /\ Finish(p, Response(loc[p].op, loc[p].user, loc[p].arg, FALSE,
                                  TRUE, "Movie added to watchlist successfully"))
            /\ UNCHANGED <<watched, prefVars, now>>

\* SELECT id FROM watched WHERE user_id = $1 AND movie_id = $2
WdSelect(p) ==
    /\ pc[p] = "wd_select"
    /\ IF WatchedRows(watched, loc[p].user, loc[p].arg) # {}
       THEN Goto(p, "wd_update")
       ELSE Goto(p, "wd_insert")

WatchedRow(p) ==
    [user |-> loc[p].user, movie |-> loc[p].arg, rating |-> MinRating,
     notes |-> NotesOrNull("")]

\* UPDATE watched, and COMMIT
WdUpdate(p) ==
    /\ pc[p] = "wd_update"
    /\ movies' = movies \cup loc[p].pending
    /\ watched' = (watched \ WatchedRows(watched, loc[p].user, loc[p].arg))
                      \cup {WatchedRow(p)}
    /\ Finish(p, Response(loc[p].op, loc[p].user, loc[p].arg, FALSE, TRUE,
                          "Updated watch record with new rating."))
    /\ UNCHANGED <<watchlist, prefVars, now>>

\* INSERT INTO watched, DELETE FROM watchlist, and COMMIT
WdInsert(p) ==
    /\ pc[p] = "wd_insert"
    /\ IF WatchedRows(watched, loc[p].user, loc[p].arg) # {}
       THEN RollBack(p, WatchedKeyMsg)
       ELSE /\ movies' = movies \cup loc[p].pending
            /\ watched' = watched \cup {WatchedRow(p)}
            /\ watchlist' = watchlist
                   \ WatchlistRows(watchlist, loc[p].user, loc[p].arg)
            /\ Finish(p, Response(loc[p].op, loc[p].user, loc[p].arg, FALSE,
                   TRUE,
                   IF isInWatchlist(watchlist, loc[p].user, loc[p].arg)
                   THEN "Movie marked as watched and removed from watchlist."
                   ELSE "Movie marked as watched."))
            /\ UNCHANGED <<prefVars, now>>

-----------------------------------------------------------------------------

Init ==
    /\ movies = {}
    /\ watchlist = {}
    /\ watched = {}
    /\ prefs = {}
    /\ cache = [u \in Users |-> <<>>]
    /\ now = 0
    /\ result = NoResponse
    /\ pc = [p \in Procs |-> "idle"]
    /\ loc = [p \in Procs |-> Idle]

Next ==
    \/ \E u \in Users, m \in WatchMedia, n \in NoteInputs, d \in ProviderOutcomes :
           AddToWatchlist(u, m, n, d)
    \/ \E u \in Users, m \in WatchMedia : RemoveFromWatchlist(u, m)
    \/ \E u \in Users, m \in WatchMedia, r \in RatingInputs, n \in NoteInputs,
          d \in ProviderOutcomes :
           MarkAsWatched(u, m, r, n, d)
    \/ Tick

Spec == Init /\ [][Next]_vars

\* The batch tool: one user's batches on a store that addToWatchlist fills
NextBatch ==
    \/ \E m \in WatchMedia :
           /\ pc["p1"] = "idle"
           /\ AddToWatchlist("u1", m, "", "released")
    \/ \E m \in WatchMedia, d \in ProviderOutcomes :
           /\ pc["p1"] = "idle"
           /\ MarkAsWatched("u1", m, MaxRating - 1, "", d)
    \/ \E entries \in BatchInputs, dm \in BatchProviders,
          transactional \in BOOLEAN :
           BatchCall("p1", "u1", entries, dm, transactional)
    \/ BatchRun("p1")
    \/ Deliver("p1")

SpecBatch == Init /\ [][NextBatch]_vars

-----------------------------------------------------------------------------
(* The preference merge: one user's calls, one after the other, Redis up *)

\* the longest list a request carries
MaxIncoming == 2

SeqsUpTo(S, n) == UNION {[1 .. k -> S] : k \in 0 .. n}

GenreItems == {Str("Action"), Str("Comedy"), Str("Drama")}

\* lists of persons as requests carry them: names, {name} objects and
\* {name: {name}} objects
PersonLists ==
    {<<>>, <<Str("Tom")>>, <<Obj("Tom")>>, <<Obj2("Tom")>>,
     <<Str("Tom"), Obj("Tom")>>, <<Obj("Tom"), Obj("Tom")>>}

NoRepeat(l) == \A i, j \in 1 .. Len(l) : l[i] = l[j] => i = j

\* lists of genres as requests carry them: up to MaxIncoming genres without
\* a repetition, and a genre given twice
GenreLists ==
    {l \in SeqsUpTo(GenreItems, MaxIncoming) : NoRepeat(l)}
    \cup {<<g, g>> : g \in GenreItems}

\* the {key, value} a request of one pair carries
PairInputs ==
    {[key |-> "favorite_genres", value |-> ListV(l)] : l \in GenreLists}
    \cup {[key |-> "favorite_actors", value |-> ListV(l)] : l \in PersonLists}

\* the {key, value} the requests of two pairs are made of
BulkPairs ==
    {[key |-> "favorite_genres", value |-> ListV(<<Str("Action")>>)],
     [key |-> "favorite_genres", value |-> ListV(<<Str("Comedy")>>)]}

\* a {key} without a value
NoValuePair == [key |-> "mood", value |-> Undefined]

SetInputs ==
    {<<>>} \cup {<<p>> : p \in PairInputs}
    \cup {<<p, q>> : p \in BulkPairs, q \in BulkPairs}
    \cup {<<p, NoValuePair>> : p \in BulkPairs}

RemoveKeys == {"favorite_genres", "favorite_actors"}
RemoveItems == {Str("Action"), Str("Comedy"), Str("Tom")}

NextPrefs ==
    \/ \E preferences \in SetInputs :
           SetPreferences("u1", preferences, TRUE, TRUE, TRUE, NoLookupFails)
    \/ \E k \in RemoveKeys, item \in RemoveItems :
           RemovePreferenceItem("u1", k, item, TRUE, TRUE, TRUE, NoLookupFails)
    \/ GetPreferences("u1", TRUE, TRUE, NoLookupFails)

SpecPrefs == Init /\ [][NextPrefs]_vars

-----------------------------------------------------------------------------
(* The cache of the preferences: one user's calls, one after the other,     *)
(* with Redis commands that may fail and a TTL that may run out             *)

CacheOutcomes == BOOLEAN

\* the {key, value} of the requests: a genre, a director, a mood
CachePairs ==
    {[key |-> "favorite_genres", value |-> ListV(<<Str("Action")>>)],
     [key |-> "favorite_directors", value |-> ListV(<<Obj("Tom")>>)],
     [key |-> "mood", value |-> ScalarV("happy")],
     [key |-> "mood", value |-> ScalarV("calm")]}

CacheRemovals ==
    {[key |-> "favorite_genres", item |-> Str("Action")],
     [key |-> "favorite_directors", item |-> Str("Tom")],
     [key |-> "mood", item |-> Str("happy")]}

NextCache ==
    \/ \E p \in CachePairs, d, g, s \in CacheOutcomes :
           SetPreferences("u1", <<p>>, d, g, s, NoLookupFails)
    \/ \E r \in CacheRemovals, d, g, s \in CacheOutcomes :
           RemovePreferenceItem("u1", r.key, r.item, d, g, s, NoLookupFails)
    \/ \E g, s \in CacheOutcomes : GetPreferences("u1", g, s, NoLookupFails)
    \/ CacheExpire("u1")

SpecCache == Init /\ [][NextCache]_vars

\* Concurrent requests of one user
ConcPairs ==
    {[key |-> "favorite_genres", value |-> ListV(<<Str("Action")>>)],
     [key |-> "favorite_genres", value |-> ListV(<<Str("Comedy")>>)]}

NextPrefsConc ==
    \E p \in Procs :
        \/ CallGet(p, "u1")
        \/ \E pair \in ConcPairs : CallSet(p, "u1", <<pair>>)
        \/ CallRemove(p, "u1", "favorite_genres", Str("Action"))
        \/ TxnSelect(p)
        \/ TxnWrite(p)
        \/ Invalidate(p)
        \/ GetCache(p)
        \/ GetQuery(p)
        \/ GetSet(p)
        \/ Return(p)

SpecPrefsConc == Init /\ [][NextPrefsConc]_vars

\* Reading the preferences while searchPeople fails for some names: one
\* user's calls, one after the other, Redis up
EnrichNames == {"Tom", "Ann"}

EnrichPairs ==
    {[key |-> "favorite_actors", value |-> ListV(<<Str("Tom")>>)],
     [key |-> "favorite_actors", value |-> ListV(<<Str("Ann")>>)],
     [key |-> "favorite_directors", value |-> ListV(<<Obj("Tom")>>)],
     [key |-> "favorite_genres", value |-> ListV(<<Str("Action")>>)]}

NextEnrich ==
    \/ \E pair \in EnrichPairs, failed \in SUBSET EnrichNames :
           SetPreferences("u1", <<pair>>, TRUE, TRUE, TRUE, failed)
    \/ \E failed \in SUBSET EnrichNames :
           RemovePreferenceItem("u1", "favorite_actors", Str("Tom"),
                                TRUE, TRUE, TRUE, failed)
    \/ \E failed \in SUBSET EnrichNames :
           GetPreferences("u1", TRUE, TRUE, failed)
    \/ CacheExpire("u1")

SpecEnrich == Init /\ [][NextEnrich]_vars

\* Two users calling every writing tool, one call after the other
FrameEntry == [tmdb_id |-> "m1", rating |-> MaxRating - 1, notes |-> ""]
FramePair == [key |-> "favorite_genres", value |-> ListV(<<Str("Action")>>)]
AllReleased == [m \in Media |-> "released"]

NextFrame ==
    \/ /\ pc["p1"] = "idle"
       /\ \E u \in Users :
             \/ AddToWatchlist(u, "m1", "", "released")
             \/ RemoveFromWatchlist(u, "m1")
             \/ MarkAsWatched(u, "m1", MaxRating, "", "released")
             \/ SetPreferences(u, <<FramePair>>, TRUE, TRUE, TRUE,
                               NoLookupFails)
             \/ RemovePreferenceItem(u, "favorite_genres", Str("Action"),
                                     TRUE, TRUE, TRUE, NoLookupFails)
    \/ \E u \in Users, transactional \in BOOLEAN :
           BatchCall("p1", u, <<FrameEntry>>, AllReleased, transactional)
    \/ BatchRun("p1")
    \/ Deliver("p1")

SpecFrame == Init /\ [][NextFrame]_vars

\* Concurrent addToWatchlist and markAsWatched requests of two users
NextWatchConc ==
    \E p \in Procs :
        \/ \E u \in Users, m \in WatchMedia : CallAdd(p, u, m)
        \/ \E u \in Users, m \in WatchMedia : CallMark(p, u, m)
        \/ \E d \in ProviderOutcomes : MarkFetch(p, d)
        \/ MovieSelect(p)
        \/ \E d \in {"released", "fail"} : MovieInsert(p, d)
        \/ WlSelect(p)
        \/ WlInsert(p)
        \/ WdSelect(p)
        \/ WdUpdate(p)
        \/ WdInsert(p)

SpecWatchConc == Init /\ [][NextWatchConc]_vars

-----------------------------------------------------------------------------
(* transaction(callback) statement by statement.  loc[p] holds the        *)
(* statements sent on the client so far (log), how often the client was   *)
(* released, the first error thrown inside the try (raised) and the error  *)
(* that is propagating (error); ok says whether the awaited call resolves. *)

TxnRequest(u) ==
    [user |-> u, op |-> "transaction", log |-> <<>>, released |-> 0,
     raised |-> "none", error |-> "none"]

\* what the caller of transaction() gets: the callback's value, or the
\* error that left the function
TxnResponse(req) ==
    [Response("transaction", req.user,
              [log |-> req.log, released |-> req.released,
               raised |-> req.raised],
              req.error # "none", req.error = "none", req.error)
     EXCEPT !.msg = req.error]

\* the catch block entered with the error e
TxnCatch(p, req, e) ==
    /\ pc' = [pc EXCEPT ![p] = "txn_rollback"]
    /\ loc' = [loc EXCEPT ![p] = [req EXCEPT !.raised = e, !.error = e]]

\* const client = await pool.connect(): outside the try, a failure leaves
\* transaction() with no client taken
TxnConnect(p, u, ok) ==
    /\ pc[p] = "idle"
    /\ IF ok
       THEN /\ pc' = [pc EXCEPT ![p] = "txn_begin"]
            /\ loc' = [loc EXCEPT ![p] = TxnRequest(u)]
            /\ UNCHANGED result
       ELSE /\ result' = TxnResponse([TxnRequest(u) EXCEPT
                                         !.raised = "connect failed",
                                         !.error = "connect failed"])
            /\ UNCHANGED procVars
    /\ UNCHANGED <<watchVars, prefVars, now>>

\* await client.query('BEGIN')
TxnBegin(p, ok) ==
    /\ pc[p] = "txn_begin"
    /\ LET req == [loc[p] EXCEPT !.log = Append(@, "BEGIN")] IN
       IF ok
       THEN /\ pc' = [pc EXCEPT ![p] = "txn_callback"]
            /\ loc' = [loc EXCEPT ![p] = req]
       ELSE TxnCatch(p, req, "BEGIN failed")
    /\ UNCHANGED <<watchVars, prefVars, now, result>>

\* const result = await callback(client)
TxnCallback(p, ok) ==
    /\ pc[p] = "txn_callback"
    /\ IF ok
       THEN /\ pc' = [pc EXCEPT ![p] = "txn_commit"]
            /\ UNCHANGED loc
       ELSE TxnCatch(p, loc[p], "callback threw")
    /\ UNCHANGED <<watchVars, prefVars, now, result>>

\* await client.query('COMMIT'); return result
TxnCommit(p, ok) ==
    /\ pc[p] = "txn_commit"
    /\ LET req == [loc[p] EXCEPT !.log = Append(@, "COMMIT")] IN
       IF ok
       THEN /\ pc' = [pc EXCEPT ![p] = "txn_finally"]
            /\ loc' = [loc EXCEPT ![p] = req]
       ELSE TxnCatch(p, req, "COMMIT failed")
    /\ UNCHANGED <<watchVars, prefVars, now, result>>

\* catch: await client.query('ROLLBACK'); throw error.  A ROLLBACK that
\* throws leaves the catch block with its own error
TxnRollback(p, ok) ==
    /\ pc[p] = "txn_rollback"
    /\ pc' = [pc EXCEPT ![p] = "txn_finally"]
    /\ loc' = [loc EXCEPT
                 ![p].log = Append(@, "ROLLBACK"),
                 ![p].error = IF ok THEN @ ELSE "ROLLBACK failed"]
    /\ UNCHANGED <<watchVars, prefVars, now, result>>

\* finally: client.release(); then the value or the error reaches the caller
TxnFinally(p) ==
    /\ pc[p] = "txn_finally"
    /\ result' = TxnResponse([loc[p] EXCEPT !.released = @ + 1])
    /\ pc' = [pc EXCEPT ![p] = "idle"]
    /\ loc' = [loc EXCEPT ![p] = Idle]
    /\ UNCHANGED <<watchVars, prefVars, now>>

\* transactions of two callers, each on its own client
NextTxn ==
    \E p \in Procs :
        \/ \E u \in Users, ok \in BOOLEAN : TxnConnect(p, u, ok)
        \/ \E ok \in BOOLEAN : TxnBegin(p, ok)
        \/ \E ok \in BOOLEAN : TxnCallback(p, ok)
        \/ \E ok \in BOOLEAN : TxnCommit(p, ok)
        \/ \E ok \in BOOLEAN : TxnRollback(p, ok)
        \/ TxnFinally(p)

SpecTxn == Init /\ [][NextTxn]_vars

\* normalizePersonNames on its own: the lists it is given, of up to MaxPeople
\* items of every shape
MaxPeople == 2

NormalizeItems ==
    {Str("Tom"), Str("Ann"), Obj("Tom"), Obj2("Tom"), ObjNum("7"),
     Obj3("Tom"), Num("7"), Rec}

InitNormalize ==
    /\ movies = {}
    /\ watchlist = {}
    /\ watched = {}
    /\ prefs = {}
    /\ cache = [u \in Users |-> <<>>]
    /\ now = 0
    /\ \E people \in SeqsUpTo(NormalizeItems, MaxPeople) :
           result = [NoResponse EXCEPT !.op = "people", !.arg = people]
    /\ pc = [p \in Procs |-> "idle"]
    /\ loc = [p \in Procs |-> Idle]

\* normalizePersonNames(people)
NormalizeCall ==
    /\ result.op = "people"
    /\ result' = [result EXCEPT !.op = "normalizePersonNames",
                                !.body = normalizePersonNames(result.arg)]
    /\ UNCHANGED <<watchVars, prefVars, now, procVars>>

\* normalizePersonNames applied to what it returned
NormalizeAgain ==
    /\ result.op = "normalizePersonNames"
    /\ result' = [result EXCEPT !.op = "normalizePersonNames again",
                                !.arg = result.body,
                                !.body = normalizePersonNames(result.body)]
    /\ UNCHANGED <<watchVars, prefVars, now, procVars>>

NextNormalize == NormalizeCall \/ NormalizeAgain

SpecNormalize == InitNormalize /\ [][NextNormalize]_vars

\* The requests of one user with the provider call attempt by attempt: the
\* outcome the handlers go on with is the one fetchJsonWithRetry ended with
NextRetry ==
    \E p \in Procs :
        \/ \E m \in WatchMedia : CallAdd(p, "u1", m)
        \/ \E m \in WatchMedia : CallMark(p, "u1", m)
        \/ \E o \in AttemptOutcomes : FetchAttempt(p, o)
        \/ ~Fetching(p) /\ MarkFetch(p, loc[p].details)
        \/ MovieSelect(p)
        \/ ~Fetching(p) /\ MovieInsert(p, loc[p].details)
        \/ WlSelect(p)
        \/ WlInsert(p)
        \/ WdSelect(p)
        \/ WdUpdate(p)
        \/ WdInsert(p)

\* the timers of an attempt (the abort at the timeout, the backoff before
\* the next attempt) fire
SpecRetry ==
    /\ Init
    /\ [][NextRetry]_vars
    /\ \A p \in Procs : WF_vars(\E o \in AttemptOutcomes : FetchAttempt(p, o))

-----------------------------------------------------------------------------
(* The watchlist / watched state machine: claims checked under Spec *)

AlreadyMsg == "Movie is already in your watchlist"
RemovedMsg == "Movie marked as watched and removed from watchlist."

\* C1: for every user and media, the store never holds both a watchlist row
\* and a watched row for the pair.
C1_MutualExclusion ==
    \A u \in Users, m \in Media :
        ~(isInWatchlist(watchlist, u, m) /\ WatchedRows(watched, u, m) # {})

\* C6: an addToWatchlist call that does not fail leaves exactly one watchlist
\* row for the pair; when the pair already has a row, the call leaves the
\* table (the row's note and timestamp) as it was and answers, without an
\* error, that the movie is already in the watchlist.
C6_IdempotentAdd ==
    [][\A u \in Users, m \in WatchMedia :
          (/\ result'.op = "addToWatchlist" /\ result'.user = u /\ result'.arg = m
           /\ \E n \in NoteInputs, d \in ProviderOutcomes :
                  AddToWatchlist(u, m, n, d))
          => /\ ~result'.isError
                  => Cardinality(WatchlistRows(watchlist', u, m)) = 1
             /\ isInWatchlist(watchlist, u, m)
                  => /\ watchlist' = watchlist
                     /\ ~result'.isError
                     /\ result'.msg = AlreadyMsg]_vars

\* C6 witness: a second add has answered "already in your watchlist" and the
\* pair has its one row, added at an earlier time.
C6_Witness ==
    /\ result.op = "addToWatchlist"
    /\ result.msg = AlreadyMsg
    /\ ~result.isError
    /\ \E r \in watchlist :
           /\ r.user = result.user /\ r.movie = result.arg
           /\ r.added_at < now
           /\ WatchlistRows(watchlist, result.user, result.arg) = {r}

\* C7: for any rating r in 1..5, a successful markAsWatched(u, m, r) that
\* follows an addToWatchlist(u, m) leaves the watchlist of u without m and
\* getWatchedMovies(u) holding m with rating r.
C7_WatchTransition ==
    [][\A u \in Users, m \in WatchMedia, r \in MinRating .. MaxRating :
          (/\ result.op = "addToWatchlist" /\ result.user = u /\ result.arg = m
           /\ ~result.isError
           /\ \E n \in NoteInputs, d \in ProviderOutcomes :
                  MarkAsWatched(u, m, r, n, d)
           /\ ~result'.isError)
          => /\ \A w \in getWatchlist(movies', watchlist', u) : w.tmdb_id # m
             /\ \E w \in handleGetWatchedMovies(movies', watched', u, 0) :
                    w.tmdb_id = m /\ w.userRating = r]_vars

\* C8: a successful markAsWatched(u, m, r, note) on a pair that already has a
\* watched row leaves exactly one watched row for the pair, with rating r and
\* the new note, deletes the pair's watchlist row and reports whether there
\* was one.
C8_RemarkClearsWatchlist ==
    [][\A u \in Users, m \in WatchMedia, r \in MinRating .. MaxRating,
          n \in NoteInputs :
          (/\ WatchedRows(watched, u, m) # {}
           /\ \E d \in ProviderOutcomes : MarkAsWatched(u, m, r, n, d)
           /\ ~result'.isError)
          => /\ WatchedRows(watched', u, m) =
                    {[user |-> u, movie |-> m, rating |-> r,
                      notes |-> NotesOrNull(n)]}
             /\ ~isInWatchlist(watchlist', u, m)
             /\ (result'.msg = RemovedMsg) <=> isInWatchlist(watchlist, u, m)]_vars

-----------------------------------------------------------------------------
(* The batch tool: claims checked under SpecBatch *)

EntryFails(req, i) ==
    \/ ~ValidRating(req.entries[i].rating)
    \/ req.dm[req.entries[i].tmdb_id] # "released"

\* the request of the batch example: three entries, the second with rating 0,
\* the first and the third valid, of two released movies
SecondOfThreeInvalid(req) ==
    /\ Len(req.entries) = 3
    /\ req.entries[1].tmdb_id # req.entries[3].tmdb_id
    /\ ~EntryFails(req, 1)
    /\ ~ValidRating(req.entries[2].rating)
    /\ ~EntryFails(req, 3)

\* C2: a transactional batch in which any entry fails (an invalid rating, an
\* unreleased movie, a provider error) changes no table: no watched row of
\* the batch is committed and no watchlist row is removed; its response is
\* one failure without a per-item report.
C2_TransactionalBatchRollsBack ==
    [][(/\ pc["p1"] = "batch" /\ pc'["p1"] = "done"
        /\ loc["p1"].transaction
        /\ \E i \in 1 .. Len(loc["p1"].entries) : EntryFails(loc["p1"], i))
       => /\ UNCHANGED watchVars
          /\ result'.isError
          /\ result'.report = <<>>]_vars

\* C2 witness: a transactional batch of three entries, the second with rating
\* 0, has been answered with a failure; the first entry's movie is on the
\* watchlist and nothing is marked as watched.
C2_Witness ==
    /\ pc["p1"] = "done"
    /\ loc["p1"].transaction
    /\ SecondOfThreeInvalid(loc["p1"])
    /\ result.isError
    /\ isInWatchlist(watchlist, "u1", loc["p1"].entries[1].tmdb_id)
    /\ watched = {}

\* C3: a best-effort batch of three entries of which the second is invalid
\* (rating 0) marks the first and the third as watched and reports the second
\* as failed in a per-item report.
C3_BestEffortSkipsInvalid ==
    [][(/\ pc["p1"] = "batch" /\ pc'["p1"] = "done"
        /\ ~loc["p1"].transaction
        /\ SecondOfThreeInvalid(loc["p1"]))
       => /\ WatchedRows(watched', "u1", loc["p1"].entries[1].tmdb_id) # {}
          /\ WatchedRows(watched', "u1", loc["p1"].entries[3].tmdb_id) # {}
          /\ ~result'.isError
          /\ Len(result'.report) = 3
          /\ result'.report[1].success
          /\ ~result'.report[2].success
          /\ result'.report[3].success]_vars

-----------------------------------------------------------------------------
(* The preference merge: claims checked under SpecPrefs *)

\* the canonical string of an item of a list-valued key: the normalized name
\* for the person keys, String() for favorite_genres
Canon(k, item) ==
    IF k \in PersonKeys THEN normalizePersonName(item).v ELSE String(item)

\* the item as the key stores it
StoredForm(k, item) ==
    IF k \in PersonKeys THEN Str(Canon(k, item)) ELSE item

\* the list stored for the key, empty when there is no row or no list
StoredList(pf, u, k) ==
    IF PrefRows(pf, u, k) = {}
    THEN <<>>
    ELSE LET value == (CHOOSE r \in PrefRows(pf, u, k) : TRUE).value
         IN  IF isArray(value) THEN value.v ELSE <<>>

\* C9: a setPreferences call with the incoming list I for a list-valued key
\* whose stored list is E stores E, element by element in its order, followed
\* by the elements of I whose canonical string is not that of an element of
\* E, in I's order; on the stored genres [Action, Comedy] the incoming
\* [Comedy, Drama] yields [Action, Comedy, Drama].
C9_MergeKeepsOrder ==
    [][\A k \in ListKeys :
          (/\ result'.op = "setPreferences"
           /\ ~result'.isError
           /\ Len(result'.arg) = 1
           /\ result'.arg[1].key = k
           /\ isArray(result'.arg[1].value)
           /\ SetPreferences(result'.user, result'.arg, TRUE, TRUE, TRUE,
                             NoLookupFails))
          => LET E == StoredList(prefs, result'.user, k)
                 I == result'.arg[1].value.v
                 S == StoredList(prefs', result'.user, k)
                 J == {i \in 1 .. Len(I) :
                          \A j \in 1 .. Len(E) : Canon(k, I[i]) # Canon(k, E[j])}
             IN  /\ Len(S) = Len(E) + Cardinality(J)
                 /\ \A i \in 1 .. Len(E) : S[i] = E[i]
                 /\ \A i \in J :
                        S[Len(E) + Cardinality({j \in J : j <= i})]
                            = StoredForm(k, I[i])
                 /\ (/\ k = "favorite_genres"
                     /\ E = <<Str("Action"), Str("Comedy")>>
                     /\ I = <<Str("Comedy"), Str("Drama")>>)
                    => S = <<Str("Action"), Str("Comedy"), Str("Drama")>>]_vars

\* C9 witness: the call setting [Comedy, Drama] has returned and the stored
\* genres are [Action, Comedy, Drama].
C9_Witness ==
    /\ result.op = "setPreferences"
    /\ ~result.isError
    /\ result.arg = <<[key |-> "favorite_genres",
                       value |-> ListV(<<Str("Comedy"), Str("Drama")>>)]>>
    /\ StoredList(prefs, "u1", "favorite_genres")
           = <<Str("Action"), Str("Comedy"), Str("Drama")>>

\* C10: the stored list of each of the three list-valued keys never holds two
\* elements with the same canonical string.
C10_NoDuplicates ==
    \A u \in Users, k \in ListKeys :
        LET S == StoredList(prefs, u, k)
        IN  \A i, j \in 1 .. Len(S) :
                Canon(k, S[i]) = Canon(k, S[j]) => i = j

-----------------------------------------------------------------------------
(* The cache of the preferences: claims checked under SpecCache and         *)
(* SpecPrefsConc                                                            *)

\* C4: when a setPreferences call that changed a stored value has returned,
\* the next getPreferences call of the user returns the preferences as they
\* are stored now, whatever the cache held before the write.
C4_NextGetIsFresh ==
    [][(/\ result'.op = "setPreferences"
        /\ ~result'.isError
        /\ prefs' # prefs)
       => \A g, s \in CacheOutcomes :
              getPreferences(prefs', cache', result'.user, g, s,
                             NoLookupFails).body
                  = PrefView(prefs', result'.user, NoLookupFails)]_vars

\* a setPreferences or removePreferenceItem request of the user has not
\* returned yet
WriterInFlight(u) ==
    \E p \in Procs :
        /\ pc[p] # "idle"
        /\ loc[p].user = u
        /\ loc[p].op \in {"setPreferences", "removePreferenceItem"}

\* C5: under concurrent requests, once every write of the user's preferences
\* has returned, the user's cache entry is absent or holds the preferences as
\* committed.
C5_NoStaleCache ==
    \A u \in Users :
        (~WriterInFlight(u) /\ cache[u] # <<>>)
            => cache[u][1] = PrefView(prefs, u, NoLookupFails)

-----------------------------------------------------------------------------
(* Removal and key lifecycle of the preference lists *)

C12_NoEmptyList ==
    \A u \in Users, k \in ListKeys :
        \A r \in PrefRows(prefs, u, k) :
            isArray(r.value) => r.value.v # <<>>

-----------------------------------------------------------------------------
(* Concurrent watchlist requests: claims checked under SpecWatchConc *)

\* C13: when concurrent addToWatchlist / markAsWatched transactions reference
\* the same tmdb_id that has no movies row yet, none of them ends with the
\* failure of the losing INSERT INTO movies.
C13_NoLostInsertFailure ==
    result.msg # MoviesKeyMsg

\* C14: the movies table never holds two rows with the same tmdb_id, and
\* every watchlist row and every watched row refers to a movies row.
C14_OneRecordPerId ==
    /\ \A r1, r2 \in movies : r1.tmdb_id = r2.tmdb_id => r1 = r2
    /\ \A e \in watchlist \cup watched : MovieRows(movies, e.movie) # {}

\* C14 witness: two transactions have inserted the same tmdb_id, the second
\* has failed on the unique index; the table holds the one row, which a
\* watchlist row and a watched row refer to.
C14_Witness ==
    /\ result.msg = MoviesKeyMsg
    /\ Cardinality(MovieRows(movies, "m1")) = 1
    /\ \E e \in watchlist : e.movie = "m1"
    /\ \E e \in watched : e.movie = "m1"

-----------------------------------------------------------------------------
(* Removal from the watchlist: checked under Spec *)

\* C15: removeFromWatchlist of a (user, media) pair that has no watchlist
\* row, the media having a movies row or not, answers without an error and
\* leaves every table as it was; when the pair has a row, exactly that row
\* is deleted.
C15_RemoveNeverFails ==
    [][\A u \in Users, m \in WatchMedia :
          (/\ result'.op = "removeFromWatchlist"
           /\ RemoveFromWatchlist(u, m))
          => IF WatchlistRows(watchlist, u, m) = {}
             THEN /\ ~result'.isError
                  /\ UNCHANGED watchVars
             ELSE /\ ~result'.isError
                  /\ watchlist' = watchlist \ WatchlistRows(watchlist, u, m)
                  /\ UNCHANGED <<movies, watched>>]_vars

-----------------------------------------------------------------------------
(* Error propagation: checked under SpecBatch *)

\* the operations callTool dispatches to
ExposedOps ==
    {"addToWatchlist", "removeFromWatchlist", "getWatchlist", "markAsWatched",
     "markAsWatchedBatch", "getWatchedMovies", "setPreferences",
     "getPreferences", "removePreferenceItem"}

\* the requests under which markAsWatchedBatch throws: the schema refuses the
\* input, or the one transaction of a transactional batch meets an entry
\* whose movie the provider fails on or reports as unreleased
BatchThrows(req) ==
    \/ ~MarkAsWatchedBatchSchema(req.entries)
    \/ /\ req.transaction
       /\ \E i \in 1 .. Len(req.entries) :
              req.dm[req.entries[i].tmdb_id] # "released"

-----------------------------------------------------------------------------
(* Concurrent writers of one preference key: checked under SpecPrefsConc *)

\* C17: the write of a setPreferences call on a list-valued key loses no
\* element that is stored under the key when it writes: what a concurrent
\* setPreferences of the same user has committed since this call read the
\* row is still in the list afterwards, next to this call's own elements.
C17_NoLostUpdate ==
    [][\A p \in Procs :
          (/\ pc[p] = "txn_write" /\ pc'[p] = "invalidate"
           /\ loc[p].op = "setPreferences")
          => LET u == loc[p].user
                 k == loc[p].arg[1].key
                 before == StoredList(prefs, u, k)
                 incoming == loc[p].arg[1].value.v
                 after == StoredList(prefs', u, k)
                 kept(e) == \E j \in 1 .. Len(after) :
                                Canon(k, after[j]) = Canon(k, e)
             IN  /\ \A i \in 1 .. Len(before) : kept(before[i])
                 /\ \A i \in 1 .. Len(incoming) : kept(incoming[i])]_vars

-----------------------------------------------------------------------------
(* The best-effort batch: checked under SpecBatch *)

\* C18: a best-effort batch (transaction = false) of schema-valid entries
\* answers without an error whatever the provider does for its movies
\* (released, unreleased, failing lookup): its report has one item per
\* entry, in the order of the entries, an item is a success exactly when its
\* movie is released, and every entry reported as a success has its watched
\* row committed, with the rating of one of the movie's entries.
C18_BestEffortReportsEach ==
    [][(/\ pc["p1"] = "batch" /\ pc'["p1"] = "done"
        /\ ~loc["p1"].transaction
        /\ MarkAsWatchedBatchSchema(loc["p1"].entries))
       => LET req == loc["p1"]
              n == Len(req.entries)
          IN  /\ ~result'.isError
              /\ Len(result'.report) = n
              /\ \A i \in 1 .. n :
                    LET e == req.entries[i]
                        item == result'.report[i]
                    IN  /\ item.tmdb_id = e.tmdb_id
                        /\ item.success <=> req.dm[e.tmdb_id] = "released"
                        /\ item.success
                           => \E w \in WatchedRows(watched', req.user, e.tmdb_id) :
                                  \E j \in 1 .. n :
                                      /\ req.entries[j].tmdb_id = e.tmdb_id
                                      /\ req.entries[j].rating = w.rating]_vars

\* C18 witness: a best-effort batch of three valid entries has been answered;
\* the first entry failed on the provider, the entries after it are reported
\* as successes and their watched row is there.
C18_Witness ==
    /\ pc["p1"] = "done"
    /\ ~loc["p1"].transaction
    /\ Len(loc["p1"].entries) = 3
    /\ MarkAsWatchedBatchSchema(loc["p1"].entries)
    /\ loc["p1"].dm[loc["p1"].entries[1].tmdb_id] = "fail"
    /\ ~result.isError
    /\ Len(result.report) = 3
    /\ ~result.report[1].success
    /\ result.report[1].msg = "Failed to fetch movie details"
    /\ result.report[2].success
    /\ result.report[3].success
    /\ WatchedRows(watched, "u1", loc["p1"].entries[2].tmdb_id) # {}
    /\ WatchedRows(watched, "u1", loc["p1"].entries[1].tmdb_id) = {}

-----------------------------------------------------------------------------
(* setPreferences with several pairs: checked under SpecPrefs *)

\* C19: a setPreferences call either fails and leaves the preferences table
\* as it was before the call, or succeeds and then every {key, value} of the
\* call is stored: the key has a row, and for a list value every element of
\* the value is in the stored list.
C19_AllOrNothing ==
    [][(/\ result'.op = "setPreferences"
        /\ SetPreferences(result'.user, result'.arg, TRUE, TRUE, TRUE,
                          NoLookupFails))
       => LET u == result'.user
              preferences == result'.arg
          IN  IF result'.isError
              THEN prefs' = prefs
              ELSE \A i \in 1 .. Len(preferences) :
                      LET k == preferences[i].key
                          S == StoredList(prefs', u, k)
                      IN  /\ PrefRows(prefs', u, k) # {}
                          /\ isArray(preferences[i].value)
                             => \A e \in 1 .. Len(preferences[i].value.v) :
                                   \E j \in 1 .. Len(S) :
                                       Canon(k, S[j])
                                           = Canon(k, preferences[i].value.v[e])]_vars

\* C19 witness: with [Action] stored, a call of two pairs, [Comedy] for the
\* genres and a pair without a value, has failed on the second pair; Comedy
\* is not stored and the second pair's key has no row.
C19_Witness ==
    /\ result.op = "setPreferences"
    /\ result.isError
    /\ result.msg = NotNullMsg
    /\ result.arg = <<[key |-> "favorite_genres",
                       value |-> ListV(<<Str("Comedy")>>)], NoValuePair>>
    /\ StoredList(prefs, "u1", "favorite_genres") = <<Str("Action")>>
    /\ PrefRows(prefs, "u1", "mood") = {}

-----------------------------------------------------------------------------
(* The release gate of markAsWatched: checked under SpecBatch *)

UnreleasedMsg == "hasn't been released yet"

\* C20: marking a movie whose release date is in the future is refused with
\* an error response and changes nothing.  A single markAsWatched call
\* answers with the error and leaves the three tables as they were.  In a
\* batch, every entry of an unreleased movie is an error (the entry's failed
\* item in a best-effort batch, the failure of the whole batch in a
\* transactional one), and the movie's rows are as before: no movies row and
\* no watched row is created, its watchlist row is kept.
C20_UnreleasedRejected ==
    [][/\ \A m \in WatchMedia :
             (/\ result'.op = "markAsWatched"
              /\ MarkAsWatched("u1", m, MaxRating - 1, "", "unreleased"))
             => /\ result'.isError
                /\ result'.msg = UnreleasedMsg
                /\ UNCHANGED watchVars
       /\ (/\ pc["p1"] = "batch" /\ pc'["p1"] = "done"
           /\ MarkAsWatchedBatchSchema(loc["p1"].entries))
          => LET req == loc["p1"]
             IN  \A i \in 1 .. Len(req.entries) :
                    LET m == req.entries[i].tmdb_id
                    IN  req.dm[m] = "unreleased"
                        => /\ IF req.transaction
                              THEN result'.isError
                              ELSE /\ ~result'.report[i].success
                                   /\ result'.report[i].msg = UnreleasedMsg
                           /\ MovieRows(movies', m) = MovieRows(movies, m)
                           /\ WatchedRows(watched', req.user, m)
                                  = WatchedRows(watched, req.user, m)
                           /\ WatchlistRows(watchlist', req.user, m)
                                  = WatchlistRows(watchlist, req.user, m)]_vars

\* C20 witness: the movie is on the user's watchlist and not yet released;
\* a best-effort batch holding an entry for it has been answered: the entry
\* is refused, the watchlist row is still there and nothing is watched.
C20_Witness ==
    /\ pc["p1"] = "done"
    /\ ~loc["p1"].transaction
    /\ Len(loc["p1"].entries) = 1
    /\ loc["p1"].entries[1].tmdb_id = "m1"
    /\ ValidRating(loc["p1"].entries[1].rating)
    /\ loc["p1"].dm["m1"] = "unreleased"
    /\ ~result.isError
    /\ ~result.report[1].success
    /\ result.report[1].msg = UnreleasedMsg
    /\ isInWatchlist(watchlist, "u1", "m1")
    /\ MovieRows(movies, "m1") # {}
    /\ watched = {}

-----------------------------------------------------------------------------
(* Provider failures under the watchlist operations: checked under Spec *)

FetchFailedMsg == "Failed to fetch movie details"

\* C21: when the provider fails to resolve a tmdb_id, addToWatchlist for an
\* id that has no movies row and markAsWatched for any id answer with an
\* error and leave the movies, watchlist and watched tables as they were.
C21_UnresolvedCommitsNothing ==
    [][/\ \A n \in NoteInputs :
             (/\ result'.op = "addToWatchlist"
              /\ MovieRows(movies, result'.arg) = {}
              /\ AddToWatchlist(result'.user, result'.arg, n, "fail"))
             => /\ result'.isError
                /\ UNCHANGED watchVars
       /\ \A r \in RatingInputs, n \in NoteInputs :
             (/\ result'.op = "markAsWatched"
              /\ MarkAsWatched(result'.user, result'.arg, r, n, "fail"))
             => /\ result'.isError
                /\ UNCHANGED watchVars]_vars

\* C21 witness: an addToWatchlist call has failed on the provider; the id
\* has no movies row and no watchlist or watched row exists.
C21_Witness ==
    /\ result.op = "addToWatchlist"
    /\ result.isError
    /\ result.msg = FetchFailedMsg
    /\ result.user = "u1"
    /\ MovieRows(movies, result.arg) = {}
    /\ watchlist = {}
    /\ watched = {}

-----------------------------------------------------------------------------
(* Errors of removePreferenceItem: checked under SpecCache *)

\* C22: removePreferenceItem for a key the user has no row for, or whose
\* stored value is not an array, answers with an error that names the cause
\* and leaves the preferences table as it was.
C22_RemoveErrorsKeepStore ==
    [][\A d, g, s \in CacheOutcomes :
          (/\ result'.op = "removePreferenceItem"
           /\ RemovePreferenceItem(result'.user, result'.arg.key,
                                   result'.arg.item, d, g, s,
                                   NoLookupFails))
          => LET rows == PrefRows(prefs, result'.user, result'.arg.key)
             IN  /\ rows = {}
                    => /\ result'.isError
                       /\ result'.msg = "not found"
                       /\ prefs' = prefs
                 /\ (\E r \in rows : ~isArray(r.value))
                    => /\ result'.isError
                       /\ result'.msg = "is not an array"
                       /\ prefs' = prefs]_vars

\* C22 witness: the user's mood is the text happy; removing happy from mood
\* has been answered with the error, and the row is still there.
C22_Witness ==
    /\ result.op = "removePreferenceItem"
    /\ result.arg = [key |-> "mood", item |-> Str("happy")]
    /\ result.isError
    /\ result.msg = "is not an array"
    /\ PrefRows(prefs, "u1", "mood")
           = {[user |-> "u1", key |-> "mood", value |-> ScalarV("happy")]}

-----------------------------------------------------------------------------
(* Watched is terminal: checked under Spec *)

\* C23: no step removes a watched row: a (user, movie) pair that has a
\* watched row before a step of any user has one after it.
C23_WatchedIsTerminal ==
    [][\A w \in watched : WatchedRows(watched', w.user, w.movie) # {}]_vars

\* C23 witness: u1 has a watched row for m1, and an addToWatchlist call of
\* u1 for m1 made after it has put the movie on the watchlist; the watched
\* row is still there.
C23_Witness ==
    /\ result.op = "addToWatchlist"
    /\ result.user = "u1"
    /\ result.arg = "m1"
    /\ result.success
    /\ isInWatchlist(watchlist, "u1", "m1")
    /\ WatchedRows(watched, "u1", "m1") # {}
    /\ WatchedRows(watched, "u2", "m1") # {}

-----------------------------------------------------------------------------
(* Person lookups that fail during a read: checked under SpecEnrich *)

\* C24: a getPreferences call during which searchPeople fails for any set of
\* names answers with success and changes no stored preference.  For each
\* person key its response lists every stored name, in the stored order; in
\* a response built from the table the names whose lookup failed, and only
\* those, have profile_url null.
C24_LookupFailureKeepsRead ==
    [][\A failed \in SUBSET EnrichNames :
          (/\ result'.op = "getPreferences"
           /\ GetPreferences(result'.user, TRUE, TRUE, failed))
          => /\ ~result'.isError
             /\ result'.success
             /\ prefs' = prefs
             /\ \A k \in PersonKeys :
                   LET S == StoredList(prefs, result'.user, k)
                   IN  PrefRows(prefs, result'.user, k) # {}
                       => \E e \in result'.body :
                             /\ e.key = k
                             /\ Len(e.value.v) = Len(S)
                             /\ \A i \in 1 .. Len(S) :
                                   /\ e.value.v[i].v = Canon(k, S[i])
                                   /\ cache[result'.user] = <<>>
                                      => (e.value.v[i].profile_url = "null"
                                          <=> Canon(k, S[i]) \in failed)]_vars

\* C24 witness: Tom and Ann are the stored actors; a getPreferences call
\* during which the lookup of Tom failed has answered with both names, Tom
\* without a profile and Ann with one.
C24_Witness ==
    /\ result.op = "getPreferences"
    /\ ~result.isError
    /\ StoredList(prefs, "u1", "favorite_actors") = <<Str("Tom"), Str("Ann")>>
    /\ \E e \in result.body :
          /\ e.key = "favorite_actors"
          /\ e.value = ListV(<<[t |-> "person", v |-> "Tom",
                                profile_url |-> "null"],
                               [t |-> "person", v |-> "Ann",
                                profile_url |-> "url"]>>)

-----------------------------------------------------------------------------
(* Users are apart: checked under SpecFrame *)

\* what the store and the cache hold for a user
OwnedBy(wl, wd, pf, c, v) ==
    [watchlist |-> {r \in wl : r.user = v},
     watched |-> {r \in wd : r.user = v},
     prefs |-> {r \in pf : r.user = v},
     cache |-> c[v]]

\* C25: a call of a writing tool by one user leaves every other user's
\* watchlist rows, watched rows, preference rows and cached preferences as
\* they were; a step that is no tool call changes none of them.
C25_OtherUsersUntouched ==
    [][IF result'.op = "none"
       THEN UNCHANGED <<watchlist, watched, prefs, cache>>
       ELSE \A v \in Users \ {result'.user} :
               OwnedBy(watchlist', watched', prefs', cache', v)
                   = OwnedBy(watchlist, watched, prefs, cache, v)]_vars

\* C25 witness: u1 has a movie on the watchlist, a watched row, a preference
\* and a cached response; u2 has marked the same movie as watched, which
\* took it off u2's own watchlist, and all of u1's are there.
C25_Witness ==
    /\ result.op = "markAsWatched"
    /\ result.user = "u2"
    /\ result.msg = "Movie marked as watched and removed from watchlist."
    /\ isInWatchlist(watchlist, "u1", "m1")
    /\ WatchedRows(watched, "u1", "m1") # {}
    /\ PrefRows(prefs, "u1", "favorite_genres") # {}
    /\ cache["u1"] # <<>>
    /\ PrefRows(prefs, "u2", "favorite_genres") = {}

-----------------------------------------------------------------------------
(* Invalidation after the commit: checked under SpecPrefsConc *)

-----------------------------------------------------------------------------
(* Concurrent addToWatchlist of one pair: checked under SpecWatchConc *)

\* C27: concurrent addToWatchlist calls for one (user, movie) pair leave at
\* most one watchlist row for the pair, and none of them is answered with
\* the failure of its INSERT INTO watchlist: the call that comes second
\* reports the movie as already present.
C27_ConcurrentAddIdempotent ==
    /\ \A u \in Users, m \in WatchMedia :
          Cardinality(WatchlistRows(watchlist, u, m)) <= 1
    /\ result.op = "addToWatchlist" => result.msg # WatchlistKeyMsg

-----------------------------------------------------------------------------
(* The provider call, attempt by attempt: checked under SpecRetry *)

\* C28: a provider call makes at most TMDB_MAX_RETRIES + 1 = 3 attempts; a
\* request that is waiting for the provider gets its outcome or its failure
\* (every attempt ends, by a response, an error or the abort at the timeout);
\* and the request whose attempts have all failed ends with the error
\* response and leaves the movies, watchlist and watched tables as they were.
C28_ProviderCallTerminates ==
    /\ [](\A p \in Procs : pc[p] # "idle" => loc[p].attempt <= 3)
    /\ [][\A p \in Procs :
             (/\ pc[p] \in {"mark_fetch", "movie_insert"}
              /\ loc[p].details = "fail"
              /\ pc'[p] # pc[p])
             => /\ pc'[p] = "idle"
                /\ result'.isError
                /\ result'.msg = FetchFailedMsg
                /\ UNCHANGED watchVars]_vars
    /\ \A p \in Procs : Fetching(p) ~> ~Fetching(p)

\* C28 witness: a markAsWatched request has made three attempts, all three
\* have failed, and the call has ended with its failure.
C28_Witness ==
    /\ pc["p1"] = "mark_fetch"
    /\ loc["p1"].attempt = TMDB_MAX_RETRIES + 1
    /\ loc["p1"].details = "fail"
    /\ pc["p2"] = "wl_insert"
    /\ loc["p2"].attempt = 2

-----------------------------------------------------------------------------
(* normalizePersonName as a function: checked under SpecNormalize *)

\* C29: normalizePersonName returns "X" for "X", for {name: "X"} and for
\* {name: {name: "X"}}; for any other item it returns a string, the text of
\* what it was given (the decimal text of a number, of a number held as the
\* name, "[object Object]" for an object it finds no name string in); and
\* normalizing what it returned returns the same.
C29_NormalizeShapes ==
    /\ result.op = "normalizePersonNames" =>
          /\ Len(result.body) = Len(result.arg)
          /\ \A i \in 1 .. Len(result.arg) :
                LET x == result.arg[i]
                    y == result.body[i]
                IN  /\ y.t = "str"
                    /\ x.t \in {"str", "obj", "obj2", "num", "objnum"}
                          => y.v = x.v
                    /\ x.t \in {"obj3", "rec"} => y.v = "[object Object]"
    /\ result.op = "normalizePersonNames again" => result.body = result.arg

\* C29 witness: a list of two items has been normalized to "Tom" and
\* "[object Object]", and that outcome normalized once more.
C29_Witness ==
    /\ result.op = "normalizePersonNames again"
    /\ result.arg = <<Str("Tom"), Str("[object Object]")>>
    /\ result.body = result.arg

-----------------------------------------------------------------------------
(* transaction() statement by statement: checked under SpecTxn *)

\* what a call of transaction() that took a client has sent and done, the
\* error the caller gets left aside
TxnStatements ==
    (result.op = "transaction" /\ result.arg.raised # "connect failed") =>
        /\ result.arg.released = 1
        /\ result.arg.log =
              CASE result.arg.raised = "none" -> <<"BEGIN", "COMMIT">>
                [] result.arg.raised = "COMMIT failed" ->
                       <<"BEGIN", "COMMIT", "ROLLBACK">>
                [] OTHER -> <<"BEGIN", "ROLLBACK">>
        /\ result.isError <=> result.arg.raised # "none"

\* C30: a call of transaction() sends BEGIN first; when the callback returns
\* it sends COMMIT and the caller gets the value; when the callback or the
\* COMMIT throws it sends ROLLBACK and the caller gets that very error; and
\* the client has been released exactly once when the call ends, whether or
\* not the ROLLBACK succeeded.
C30_CommitOrRollback ==
    /\ TxnStatements
    /\ (/\ result.op = "transaction"
        /\ result.arg.raised \in {"callback threw", "COMMIT failed"})
          => result.msg = result.arg.raised

====
